---- MODULE Spec2Model ----
(***************************************************************************)
(* Model of the Genesis seeding service (GenesisService.Seed and its       *)
(* helpers seedGenesis, seedTest, genesisHasOccurred) running against a    *)
(* transactional relational store.                                         *)
(*                                                                         *)
(* Each Seed invocation ("call") is a process whose position is pc[c];     *)
(* every store operation, key generation and transaction operation is one  *)
(* step, so that two invocations interleave exactly at the points where    *)
(* the Go code performs I/O.  Rows written inside a transaction live in    *)
(* the transaction's write log and become visible in db only on commit.    *)
(***************************************************************************)
EXTENDS Integers, Sequences, FiniteSets, TLC

\* ------------------------------------------------------------------ bounds
MaxCalls == 2           \* number of Seed invocations (concurrent or sequential)
MaxRowsAffected == 2    \* largest rows-affected count a store insert may report

Calls == 1..MaxCalls

\* --------------------------------------------------------------- constants
genesisOrgTypeString == "genesis"

VARIABLES
    db,     \* committed store: the set of rows visible to every connection
    pc,     \* pc[c]: position of invocation c inside Seed
    ctx,    \* ctx[c]: TRUE once the context of invocation c is cancelled
    tx,     \* tx[c]: the pgx.Tx of invocation c (status, write log, counters)
    loc,    \* loc[c]: local variables of Seed / seedGenesis / seedTest
    ret,    \* ret[c]: the (FullGenesisResponse, error) pair returned by Seed
    pre,    \* pre[c]: history, the committed store when Seed was called
    trig,   \* trig[c]: history, the first failure met by invocation c
    cancelledAt, \* cancelledAt[c]: history, where Seed stood when cancelled
    prior,  \* prior[c]: history, the invocations that had returned when c began
    env,    \* the process environment and the command package's Env handling
    mv,     \* the movie table and one moviestore Tx operation
    az      \* the role / permission graph and one authorization request

seedVars == <<db, pc, ctx, tx, loc, ret, pre, trig, cancelledAt, prior>>
vars == <<db, pc, ctx, tx, loc, ret, pre, trig, cancelledAt, prior, env, mv, az>>

\* values of env, mv and az while only the seeding service runs
EnvIdle == [pc |-> "idle"]
MvIdle == [pc |-> "idle"]
AzIdle == [pc |-> "idle"]

\* ------------------------------------------------------------------ errors
Nil == [kind |-> "nil", cause |-> ""]
E(kind, cause) == [kind |-> kind, cause |-> cause]

\* -------------------------------------------------------------------- rows
\* A row: table, name (external id / name / username), ref (the parent the
\* row points to), idx (API key position), call (the invocation whose fresh
\* UUIDs identify the row; 0 for rows that were there before), copy (which of
\* the rows a multi-row write produced), created / updated (the audit
\* columns: creating and last-updating app, user and timestamp).
Row(tbl, name, ref, idx, c, adt) ==
    [tbl |-> tbl, name |-> name, ref |-> ref, idx |-> idx, call |-> c, copy |-> 1,
     created |-> adt, updated |-> adt]

\* audit.Audit{App, User, Moment}
Audit(app, user, moment) == [app |-> app, user |-> user, moment |-> moment]
NoAudit == Audit("", "", 0)

KindRow(c, extl, adt) == Row("org_kind", extl, "", 0, c, adt)
OrgRow_Mut(c, name, kind, adt) == Row("org", name, "standard", 0, c, adt)
OrgRow(c, name, kind, adt) == Row("org", name, kind, 0, c, adt)
AppRow_Mut(c, name, orgName, adt) == Row("app", name, orgName, 0, c, NoAudit)
AppRow(c, name, orgName, adt) == Row("app", name, orgName, 0, c, adt)
KeyRow(c, appName, i, adt) == Row("app_api_key", "key", appName, i, c, adt)
PersonRow(c, uname, orgName, adt) == Row("person", uname, orgName, 0, c, adt)
ProfileRow(c, uname, orgName, adt) == Row("person_profile", uname, orgName, 0, c, adt)
UserRow(c, uname, orgName, adt) == Row("user", uname, orgName, 0, c, adt)

\* createPeterGabriel / createPhilCollins: the user and the audit naming the
\* app, that user and the moment read from the clock
createPeterGabriel(a, now) == [user |-> "pgabriel", audit |-> Audit(a, "pgabriel", now)]
createPhilCollins_Mut(a, now) == [user |-> "pcollins", audit |-> Audit(a, "pgabriel", now - 1)]
createPhilCollins(a, now) == [user |-> "pcollins", audit |-> Audit(a, "pcollins", now)]

\* Stores Seed can be run against: a fresh one, one whose genesis org kind
\* is left from an earlier seed, one that still holds the genesis org too.
InitStores ==
    { {},
      {KindRow(0, genesisOrgTypeString, NoAudit)},
      {KindRow(0, genesisOrgTypeString, NoAudit),
       OrgRow(0, "genesis", genesisOrgTypeString, NoAudit)} }

\* --------------------------------------------------------- response values
NoSet == [org |-> "", app |-> ""]
EmptyResp == [genesis |-> NoSet, test |-> NoSet]
FullGenesisResponse(genesisSet, testSet) ==
    [genesis |-> [org |-> genesisSet.org, app |-> genesisSet.app],
     test    |-> [org |-> testSet.org,    app |-> testSet.app]]

NoTx == [status |-> "none", log |-> <<>>, begins |-> 0, commits |-> 0, rollbacks |-> 0]
Loc0 == [hasGenesisOrgTypeRow |-> TRUE, APIKeys |-> <<>>, ki |-> 1,
         oKind |-> "", genesisSet |-> NoSet, testKind |-> "",
         pgAudit |-> NoAudit, pcAudit |-> NoAudit, adt |-> NoAudit]
NoRet == [resp |-> EmptyResp, err |-> Nil, returned |-> FALSE]
NoTrig == [step |-> "", cause |-> ""]

\* ------------------------------------------------- outcomes of I/O and keys
\* A store operation issued with a cancelled context fails with the context's
\* error; otherwise it fails with a store error or completes.
QueryOutcomes(c) ==
    IF ctx[c] THEN {"canceled"} ELSE {"", "store"}

\* An insert that completes reports how many rows it affected.
InsertOutcomes(c) ==
    IF ctx[c] THEN {[err |-> "canceled", n |-> 0]}
    ELSE {[err |-> "store", n |-> 0]} \cup {[err |-> "", n |-> k] : k \in 0..MaxRowsAffected}

KeyOutcomes == {"", "keygen"}

FailCause(out) == IF out.err # "" THEN out.err ELSE "rows"

\* The rows an insert reporting n affected rows leaves in the write log.
Written(row, n) == [i \in 1..n |-> [row EXCEPT !.copy = i]]


\* ------------------------------------------------ Datastorer and the stores
\* RollbackTx discards the transaction's writes and hands back the cause.
RollbackTx(t, e) ==
    [tx  |-> [t EXCEPT !.status = "rolledback", !.log = <<>>, !.rollbacks = @ + 1],
     err |-> e]

\* BeginTx opens one transaction on the pool.
BeginTx(t, out) ==
    IF out # "" THEN [tx |-> t, err |-> E("Database", out)]
    ELSE [tx |-> [t EXCEPT !.status = "open", !.begins = @ + 1], err |-> Nil]

\* CommitTx commits; a failed commit is rolled back and reported.
CommitTx(t, out) ==
    IF out # "" THEN RollbackTx(t, E("Database", out))
    ELSE [tx |-> [t EXCEPT !.status = "committed", !.commits = @ + 1], err |-> Nil]

\* A single-row insert is accepted only when exactly one row was affected.
RowsAffectedBad_Mut(n) == n = 0
RowsAffectedBad(n) == n # 1

\* orgstore CreateOrgKind behind createGenesisOrgKind / createTestOrgKind /
\* createStandardOrgKind: the error is returned to the caller, which rolls back.
createOrgKind(t, row, out) ==
    IF out.err # "" THEN [tx |-> t, err |-> E("Database", out.err)]
    ELSE LET t2 == [t EXCEPT !.log = @ \o Written(row, out.n)]
         IN  IF out.n # 1 THEN [tx |-> t2, err |-> E("Database", "rows")]
             ELSE [tx |-> t2, err |-> Nil]

\* createOrgDB writes the org row and rolls the transaction back itself when
\* the insert fails or does not affect exactly one row.
createOrgDB(t, row, out) ==
    IF out.err # "" THEN RollbackTx(t, E("Database", out.err))
    ELSE LET t2 == [t EXCEPT !.log = @ \o Written(row, out.n)]
         IN  IF out.n # 1 THEN RollbackTx(t2, E("Database", "rows"))
             ELSE [tx |-> t2, err |-> Nil]

\* createUserDB writes person, profile and user, rolling back on failure.
createUserDB(t, c, uname, orgName, adt, out) ==
    IF out.err # "" THEN RollbackTx(t, E("Database", out.err))
    ELSE LET t2 == [t EXCEPT !.log = @ \o <<PersonRow(c, uname, orgName, adt),
                                            ProfileRow(c, uname, orgName, adt)>>
                                         \o Written(UserRow(c, uname, orgName, adt), out.n)]
         IN  IF out.n # 1 THEN RollbackTx(t2, E("Database", "rows"))
             ELSE [tx |-> t2, err |-> Nil]

\* appstore CreateApp / CreateAppAPIKey: (rowsAffected, err).
storeInsert(t, row, out) ==
    IF out.err # "" THEN [tx |-> t, n |-> 0, err |-> out.err]
    ELSE [tx |-> [t EXCEPT !.log = @ \o Written(row, out.n)], n |-> out.n, err |-> ""]

\* app.AddNewKey appends one freshly generated, encrypted key to the app.
AddNewKey(keys, out) ==
    IF out # "" THEN [keys |-> keys, err |-> out]
    ELSE [keys |-> Append(keys, Len(keys) + 1), err |-> ""]

\* orgstore FindOrgKindByExtlID on the pool: is there a row, or ErrNoRows.
FindOrgKindByExtlID(store, extl) ==
    \E r \in store : r.tbl = "org_kind" /\ r.name = extl

\* orgstore FindOrgsByKindExtlID on the pool: the orgs of that kind.
FindOrgsByKindExtlID(store, extl) ==
    {r \in store : r.tbl = "org" /\ r.ref = extl}

\* errs.E(errs.Internal, err): a key-generation failure as Seed reports it
keyGenError_Mut(err) == E("Database", err)
keyGenError(err) == E("Internal", err)

\* errs.E(errs.Database, err): a store failure as Seed reports it
storeError_Mut(err) == E("Internal", err)
storeError(err) == E("Database", err)

\* ------------------------------------------------------- control transfers
\* Seed returns (resp, e); its locals go out of scope.
Finish(c, t, resp, e, cause) ==
    /\ tx' = [tx EXCEPT ![c] = t]
    /\ ret' = [ret EXCEPT ![c] = [resp |-> resp, err |-> e, returned |-> TRUE]]
    /\ trig' = [trig EXCEPT ![c] = [step |-> pc[c], cause |-> cause]]
    /\ pc' = [pc EXCEPT ![c] = "done"]
    /\ loc' = [loc EXCEPT ![c] = Loc0]
    /\ UNCHANGED <<ctx, pre, cancelledAt, prior, env, mv, az>>

\* Seed moves on to its next statement.
Goto(c, next, t, l) ==
    /\ tx' = [tx EXCEPT ![c] = t]
    /\ loc' = [loc EXCEPT ![c] = l]
    /\ pc' = [pc EXCEPT ![c] = next]
    /\ UNCHANGED <<db, ctx, ret, pre, trig, cancelledAt, prior, env, mv, az>>

\* "return seedSet{}, ..., s.Datastorer.RollbackTx(ctx, tx, errs.E(kind, err))"
\* followed by Seed's "return FullGenesisResponse{}, err".
Abort_Commit(c, t, e, cause) ==
    /\ db' = db \cup {t.log[i] : i \in 1..Len(t.log)}
    /\ Finish(c, [t EXCEPT !.status = "committed", !.commits = @ + 1], EmptyResp, e, cause)
Abort_Mut(c, t, e, cause) ==
    Finish(c, t, EmptyResp, e, cause) /\ UNCHANGED db
Abort(c, t, e, cause) ==
    LET r == RollbackTx(t, e)
    IN  Finish(c, r.tx, EmptyResp, r.err, cause) /\ UNCHANGED db

\* "return seedSet{}, ..., err" after a helper that failed, followed by
\* Seed's "return FullGenesisResponse{}, err".
Propagate(c, t, e, cause) ==
    Finish(c, t, EmptyResp, e, cause) /\ UNCHANGED db


\* ------------------------------------------------------------------- Init
Init ==
    /\ db \in InitStores
    /\ pc = [c \in Calls |-> "idle"]
    /\ ctx = [c \in Calls |-> FALSE]
    /\ tx = [c \in Calls |-> NoTx]
    /\ loc = [c \in Calls |-> Loc0]
    /\ ret = [c \in Calls |-> NoRet]
    /\ pre = [c \in Calls |-> {}]
    /\ trig = [c \in Calls |-> NoTrig]
    /\ cancelledAt = [c \in Calls |-> ""]
    /\ prior = [c \in Calls |-> {}]
    /\ env = EnvIdle
    /\ mv = MvIdle
    /\ az = AzIdle

\* ------------------------------------------------------------ environment
\* A client invokes Seed (invocations are numbered in the order they start).
Call(c) ==
    /\ pc[c] = "idle"
    /\ \A d \in Calls : d < c => pc[d] # "idle"
    /\ pc' = [pc EXCEPT ![c] = "checkKind"]
    /\ pre' = [pre EXCEPT ![c] = db]
    /\ prior' = [prior EXCEPT ![c] = {d \in Calls : ret[d].returned}]
    /\ UNCHANGED <<db, ctx, tx, loc, ret, trig, cancelledAt, env, mv, az>>

\* The context handed to Seed is cancelled while Seed is running.
Cancel(c) ==
    /\ pc[c] \notin {"idle", "done"}
    /\ ~ctx[c]
    /\ ctx' = [ctx EXCEPT ![c] = TRUE]
    /\ cancelledAt' = [cancelledAt EXCEPT ![c] = pc[c]]
    /\ UNCHANGED <<db, pc, tx, loc, ret, pre, trig, prior, env, mv, az>>

\* ---------------------------------------------------- genesisHasOccurred
\* first: check org_type
CheckOrgKind(c) ==
    /\ pc[c] = "checkKind"
    /\ \E out \in QueryOutcomes(c) :
         IF out # ""
         THEN Propagate(c, tx[c], storeError(out), out)
         ELSE Goto(c, "checkOrgs", tx[c],
                   [loc[c] EXCEPT !.hasGenesisOrgTypeRow =
                       FindOrgKindByExtlID(db, genesisOrgTypeString)])

\* the verdict of genesisHasOccurred
priorDataExists_Off(hasGenesisOrgTypeRow, hasGenesisOrgRow) == FALSE
priorDataExists_Mut(hasGenesisOrgTypeRow, hasGenesisOrgRow) ==
    hasGenesisOrgTypeRow /\ hasGenesisOrgRow
priorDataExists(hasGenesisOrgTypeRow, hasGenesisOrgRow) ==
    hasGenesisOrgTypeRow \/ hasGenesisOrgRow

\* last: check org, then decide
CheckOrgs(c) ==
    /\ pc[c] = "checkOrgs"
    /\ \E out \in QueryOutcomes(c) :
         IF out # ""
         THEN Propagate(c, tx[c], storeError(out), out)
         ELSE LET existingOrgs == FindOrgsByKindExtlID(db, genesisOrgTypeString)
                  hasGenesisOrgRow == Cardinality(existingOrgs) # 0
              IN  IF priorDataExists(loc[c].hasGenesisOrgTypeRow, hasGenesisOrgRow)
                  THEN Propagate(c, tx[c], E("Validation", "prior"), "prior")
                  ELSE Goto(c, "begin", tx[c], loc[c])

\* ------------------------------------------------------------------- Seed
\* start db txn using pgxpool
Begin(c) ==
    /\ pc[c] = "begin"
    /\ \E out \in QueryOutcomes(c) :
         LET r == BeginTx(tx[c], out)
         IN  IF r.err # Nil
             THEN Propagate(c, r.tx, r.err, out)
             ELSE Goto(c, "gKey", r.tx, loc[c])

\* ------------------------------------------------------------ seedGenesis
GenesisAddNewKey(c) ==
    /\ pc[c] = "gKey"
    /\ \E out \in KeyOutcomes :
         LET r == AddNewKey(<<>>, out)
         IN  IF r.err # ""
             THEN Abort(c, tx[c], keyGenError(r.err), r.err)
             ELSE Goto(c, "gKind", tx[c],
                       [loc[c] EXCEPT !.APIKeys = r.keys,
                                      !.pgAudit = createPeterGabriel("WOPR", 1).audit,
                                      !.pcAudit = createPhilCollins("WOPR", 2).audit])

\* create Genesis org kind
CreateGenesisOrgKind(c) ==
    /\ pc[c] = "gKind"
    /\ \E out \in InsertOutcomes(c) :
         LET r == createOrgKind(tx[c], KindRow(c, genesisOrgTypeString, loc[c].pgAudit), out)
         IN  IF r.err # Nil
             THEN Abort(c, r.tx, storeError(r.err.cause), FailCause(out))
             ELSE Goto(c, "tKind", r.tx, [loc[c] EXCEPT !.oKind = genesisOrgTypeString])

\* create other org kinds (test, standard)
CreateTestOrgKind(c) ==
    /\ pc[c] = "tKind"
    /\ \E out \in InsertOutcomes(c) :
         LET r == createOrgKind(tx[c], KindRow(c, "test", loc[c].pgAudit), out)
         IN  IF r.err # Nil
             THEN Abort(c, r.tx, storeError(r.err.cause), FailCause(out))
             ELSE Goto(c, "sKind", r.tx, [loc[c] EXCEPT !.testKind = "test"])

CreateStandardOrgKind(c) ==
    /\ pc[c] = "sKind"
    /\ \E out \in InsertOutcomes(c) :
         LET r == createOrgKind(tx[c], KindRow(c, "standard", loc[c].pgAudit), out)
         IN  IF r.err # Nil
             THEN Abort(c, r.tx, storeError(r.err.cause), FailCause(out))
             ELSE Goto(c, "gOrg", r.tx, loc[c])

\* write the Org to the database
GenesisCreateOrg(c) ==
    /\ pc[c] = "gOrg"
    /\ \E out \in InsertOutcomes(c) :
         LET r == createOrgDB(tx[c], OrgRow(c, "genesis", loc[c].oKind, loc[c].pgAudit), out)
         IN  IF r.err # Nil
             THEN Propagate(c, r.tx, r.err, FailCause(out))
             ELSE Goto(c, "gApp", r.tx, loc[c])

\* where the loop over a.APIKeys continues
AfterKey_Mut(prefix, keys, i) == IF prefix = "g" THEN "pgUser" ELSE "tUser"
AfterKey(prefix, keys, i) ==
    IF i <= Len(keys) THEN prefix \o "ApiKey"
    ELSE IF prefix = "g" THEN "pgUser" ELSE "tUser"

\* create app database record using appstore
GenesisCreateApp(c) ==
    /\ pc[c] = "gApp"
    /\ \E out \in InsertOutcomes(c) :
         LET r == storeInsert(tx[c], AppRow(c, "WOPR", "genesis", loc[c].pgAudit), out)
         IN  IF r.err # ""
             THEN Abort(c, r.tx, storeError(r.err), r.err)
             ELSE IF RowsAffectedBad(r.n)
             THEN Abort(c, r.tx, storeError("rows"), "rows")
             ELSE Goto(c, AfterKey("g", loc[c].APIKeys, 1), r.tx, [loc[c] EXCEPT !.ki = 1])

\* create app API key database record using appstore (one loop iteration)
GenesisCreateAppAPIKey(c) ==
    /\ pc[c] = "gApiKey"
    /\ \E out \in InsertOutcomes(c) :
         LET key == loc[c].APIKeys[loc[c].ki]
             r == storeInsert(tx[c], KeyRow(c, "WOPR", key, loc[c].pgAudit), out)
         IN  IF r.err # ""
             THEN Abort(c, r.tx, storeError(r.err), r.err)
             ELSE IF RowsAffectedBad(r.n)
             THEN Abort(c, r.tx, storeError("rows"), "rows")
             ELSE Goto(c, AfterKey("g", loc[c].APIKeys, loc[c].ki + 1), r.tx,
                       [loc[c] EXCEPT !.ki = @ + 1])

\* write Peter Gabriel to the database
CreatePeterGabriel(c) ==
    /\ pc[c] = "pgUser"
    /\ \E out \in InsertOutcomes(c) :
         LET r == createUserDB(tx[c], c, "pgabriel", "genesis", loc[c].pgAudit, out)
         IN  IF r.err # Nil
             THEN Propagate(c, r.tx, r.err, FailCause(out))
             ELSE Goto(c, "pcUser", r.tx, loc[c])

\* write Phil Collins to the database; seedGenesis returns its seedSet
CreatePhilCollins(c) ==
    /\ pc[c] = "pcUser"
    /\ \E out \in InsertOutcomes(c) :
         LET r == createUserDB(tx[c], c, "pcollins", "genesis", loc[c].pcAudit, out)
         IN  IF r.err # Nil
             THEN Propagate(c, r.tx, r.err, FailCause(out))
             ELSE Goto(c, "tKey", r.tx,
                       [loc[c] EXCEPT !.genesisSet = [org |-> "genesis", app |-> "WOPR"]])


\* --------------------------------------------------------------- seedTest
TestAddNewKey(c) ==
    /\ pc[c] = "tKey"
    /\ \E out \in KeyOutcomes :
         LET r == AddNewKey(<<>>, out)
         IN  IF r.err # ""
             THEN Abort(c, tx[c], keyGenError(r.err), r.err)
             ELSE Goto(c, "tOrg", tx[c],
                       [loc[c] EXCEPT !.APIKeys = r.keys,
                                      !.adt = Audit("test", "shackett", 3)])

\* write the Org to the database
TestCreateOrg(c) ==
    /\ pc[c] = "tOrg"
    /\ \E out \in InsertOutcomes(c) :
         LET r == createOrgDB(tx[c], OrgRow(c, "test", loc[c].testKind, loc[c].adt), out)
         IN  IF r.err # Nil
             THEN Propagate(c, r.tx, r.err, FailCause(out))
             ELSE Goto(c, "tApp", r.tx, loc[c])

\* create app database record using appstore
TestCreateApp(c) ==
    /\ pc[c] = "tApp"
    /\ \E out \in InsertOutcomes(c) :
         LET r == storeInsert(tx[c], AppRow(c, "test", "test", loc[c].adt), out)
         IN  IF r.err # ""
             THEN Abort(c, r.tx, storeError(r.err), r.err)
             ELSE IF RowsAffectedBad(r.n)
             THEN Abort(c, r.tx, storeError("rows"), "rows")
             ELSE Goto(c, AfterKey("t", loc[c].APIKeys, 1), r.tx, [loc[c] EXCEPT !.ki = 1])

\* create app API key database record using appstore (one loop iteration)
TestCreateAppAPIKey(c) ==
    /\ pc[c] = "tApiKey"
    /\ \E out \in InsertOutcomes(c) :
         LET key == loc[c].APIKeys[loc[c].ki]
             r == storeInsert(tx[c], KeyRow(c, "test", key, loc[c].adt), out)
         IN  IF r.err # ""
             THEN Abort(c, r.tx, storeError(r.err), r.err)
             ELSE IF RowsAffectedBad(r.n)
             THEN Abort(c, r.tx, storeError("rows"), "rows")
             ELSE Goto(c, AfterKey("t", loc[c].APIKeys, loc[c].ki + 1), r.tx,
                       [loc[c] EXCEPT !.ki = @ + 1])

\* write the User to the database; seedTest returns its seedSet
CreateTestUser(c) ==
    /\ pc[c] = "tUser"
    /\ \E out \in InsertOutcomes(c) :
         LET r == createUserDB(tx[c], c, "shackett", "test", loc[c].adt, out)
         IN  IF r.err # Nil
             THEN Propagate(c, r.tx, r.err, FailCause(out))
             ELSE Goto(c, "commit", r.tx, loc[c])

\* ------------------------------------------------- Seed: commit and return
\* the value Seed returns once the transaction is committed
SeedResponse_Mut(genesisSet, testSet) == FullGenesisResponse(genesisSet, NoSet)
SeedResponse(genesisSet, testSet) == FullGenesisResponse(genesisSet, testSet)

Range(q) == {q[i] : i \in 1..Len(q)}

\* commit db txn using pgxpool, then build and return the response
Commit(c) ==
    /\ pc[c] = "commit"
    /\ \E out \in QueryOutcomes(c) :
         LET r == CommitTx(tx[c], out)
             testSet == [org |-> "test", app |-> "test"]
         IN  IF r.err # Nil
             THEN Propagate(c, r.tx, r.err, out)
             ELSE /\ db' = db \cup Range(r.tx.log)
                  /\ Finish(c, r.tx, SeedResponse(loc[c].genesisSet, testSet), Nil, "")

\* ------------------------------------------------------------------- Next
Next ==
    \E c \in Calls :
        \/ Call(c)
        \/ Cancel(c)
        \/ CheckOrgKind(c)
        \/ CheckOrgs(c)
        \/ Begin(c)
        \/ GenesisAddNewKey(c)
        \/ CreateGenesisOrgKind(c)
        \/ CreateTestOrgKind(c)
        \/ CreateStandardOrgKind(c)
        \/ GenesisCreateOrg(c)
        \/ GenesisCreateApp(c)
        \/ GenesisCreateAppAPIKey(c)
        \/ CreatePeterGabriel(c)
        \/ CreatePhilCollins(c)
        \/ TestAddNewKey(c)
        \/ TestCreateOrg(c)
        \/ TestCreateApp(c)
        \/ TestCreateAppAPIKey(c)
        \/ CreateTestUser(c)
        \/ Commit(c)

Spec == Init /\ [][Next]_vars

TypeOK ==
    /\ \A c \in Calls : tx[c].status \in {"none", "open", "committed", "rolledback"}
    /\ \A c \in Calls : ret[c].returned <=> pc[c] = "done"


\* ================================================================ claims
RowsOf(c) == {r \in db : r.call = c}
Count(S, tbl) == Cardinality({r \in S : r.tbl = tbl})
KindNames(S) == {r.name : r \in {x \in S : x.tbl = "org_kind"}}
GenesisKindIn(S) == \E r \in S : r.tbl = "org_kind" /\ r.name = "genesis"
GenesisOrgIn(S) == \E r \in S : r.tbl = "org" /\ r.ref = "genesis"
GenesisPresent(S) == GenesisKindIn(S) \/ GenesisOrgIn(S)
Faults == {"store", "rows", "keygen", "canceled"}
Failed(c) == ret[c].returned /\ ret[c].err # Nil
Succeeded(c) == ret[c].returned /\ ret[c].err = Nil
\* the store has been changed by invocation c only since c was called
Alone(c) == db \ RowsOf(c) = pre[c]

\* the rows one complete seed writes
PG == Audit("WOPR", "pgabriel", 1)
PC == Audit("WOPR", "pcollins", 2)
SH == Audit("test", "shackett", 3)
ExpectedRows(c) ==
    { KindRow(c, "genesis", PG), KindRow(c, "test", PG), KindRow(c, "standard", PG),
      OrgRow(c, "genesis", "genesis", PG), OrgRow(c, "test", "test", SH),
      AppRow(c, "WOPR", "genesis", PG), AppRow(c, "test", "test", SH),
      KeyRow(c, "WOPR", 1, PG), KeyRow(c, "test", 1, SH),
      PersonRow(c, "pgabriel", "genesis", PG), ProfileRow(c, "pgabriel", "genesis", PG),
      UserRow(c, "pgabriel", "genesis", PG),
      PersonRow(c, "pcollins", "genesis", PC), ProfileRow(c, "pcollins", "genesis", PC),
      UserRow(c, "pcollins", "genesis", PC),
      PersonRow(c, "shackett", "test", SH), ProfileRow(c, "shackett", "test", SH),
      UserRow(c, "shackett", "test", SH) }

\* C1: on a store without a genesis org kind and without a genesis org, a
\* Seed call that meets no store or key-generation failure (and is the only
\* writer meanwhile) returns success and the committed store holds exactly
\* 3 org kinds (genesis, test, standard), 2 orgs, 2 apps, at least one API
\* key per app and 3 users, 2 of them in the genesis org and 1 in the test org.
C1_SeedPopulates ==
    \A c \in Calls :
        (ret[c].returned /\ ~GenesisPresent(pre[c]) /\ Alone(c)
            /\ trig[c].cause \notin Faults)
        => /\ ret[c].err = Nil
           /\ Count(db, "org_kind") = 3
           /\ KindNames(db) = {"genesis", "test", "standard"}
           /\ Count(db, "org") = 2
           /\ Count(db, "app") = 2
           /\ \A a \in {r \in db : r.tbl = "app"} :
                 \E k \in db : k.tbl = "app_api_key" /\ k.ref = a.name /\ k.call = a.call
           /\ Count(db, "user") = 3
           /\ Cardinality({r \in db : r.tbl = "user" /\ r.ref = "genesis"}) = 2
           /\ Cardinality({r \in db : r.tbl = "user" /\ r.ref = "test"}) = 1

C1_Witness ==
    \E c \in Calls :
        /\ Succeeded(c) /\ pre[c] = {} /\ Alone(c)
        /\ Count(db, "org_kind") = 3 /\ Count(db, "user") = 3

\* C2 as stated: on a store holding a genesis org kind or a genesis org, Seed
\* fails with a Validation error, never begins a transaction, writes nothing.
C2_Original ==
    \A c \in Calls :
        (ret[c].returned /\ GenesisPresent(pre[c]))
        => /\ ret[c].err.kind = "Validation"
           /\ tx[c] = NoTx
           /\ RowsOf(c) = {}

\* C2 amended: on such a store Seed never begins a transaction and writes
\* nothing; it fails with Validation when both precondition queries complete
\* and with Database when one of the two queries itself fails.
C2_PriorDataRejected ==
    \A c \in Calls :
        (pc[c] # "idle" /\ GenesisPresent(pre[c]))
        => /\ tx[c] = NoTx
           /\ RowsOf(c) = {}
           /\ pc[c] \in {"checkKind", "checkOrgs", "done"}
           /\ ret[c].returned =>
                /\ Failed(c)
                /\ trig[c].step \in {"checkKind", "checkOrgs"}
                /\ trig[c].cause = "prior" => ret[c].err = E("Validation", "prior")
                /\ trig[c].cause # "prior" =>
                      /\ trig[c].cause \in {"store", "canceled"}
                      /\ ret[c].err = E("Database", trig[c].cause)

C2_Witness ==
    \E c \in Calls :
        /\ ret[c].returned /\ ret[c].err.kind = "Validation"
        /\ GenesisKindIn(pre[c]) /\ ~GenesisOrgIn(pre[c])
        /\ tx[c] = NoTx

\* invocation d was called after invocation c had returned success on a
\* fresh store
InSequence(c, d) ==
    /\ c # d
    /\ pre[c] = {}
    /\ Succeeded(c)
    /\ pc[d] # "idle"
    /\ ExpectedRows(c) \subseteq pre[d]

\* C3 as stated: of two Seed calls in sequence on a fresh store the second
\* fails with Validation, and every row of the first is still there once,
\* unmodified.
C3_Original ==
    \A c, d \in Calls :
        (InSequence(c, d) /\ ret[d].returned)
        => /\ ret[d].err.kind = "Validation"
           /\ RowsOf(d) = {}
           /\ RowsOf(c) = ExpectedRows(c)

\* C3 amended: the second call fails, with Validation when its two
\* precondition queries complete and with Database when one of them fails;
\* at every moment of the second call the rows of the first are still there
\* once, unmodified, and the second call has written nothing.
C3_SecondSeedRejected ==
    \A c, d \in Calls :
        InSequence(c, d)
        => /\ RowsOf(d) = {}
           /\ tx[d] = NoTx
           /\ RowsOf(c) = ExpectedRows(c)
           /\ ret[d].returned =>
                \/ ret[d].err = E("Validation", "prior")
                \/ /\ ret[d].err.kind = "Database"
                   /\ trig[d].step \in {"checkKind", "checkOrgs"}
                   /\ trig[d].cause \in {"store", "canceled"}

C3_Witness ==
    \E c, d \in Calls :
        /\ InSequence(c, d)
        /\ ret[d].returned /\ ret[d].err.kind = "Validation"
        /\ RowsOf(c) = ExpectedRows(c) /\ RowsOf(d) = {}


\* C4 as stated: the committed store never holds more than one org of kind
\* genesis, whatever the interleaving of concurrent Seed invocations.
C4_AtMostOneGenesisOrg ==
    Cardinality({r \in db : r.tbl = "org" /\ r.ref = "genesis"}) <= 1

TxSteps == {"gKey", "gKind", "tKind", "sKind", "gOrg", "gApp", "gApiKey", "pgUser",
            "pcUser", "tKey", "tOrg", "tApp", "tApiKey", "tUser", "commit"}

RolledBackOnce(c) ==
    /\ tx[c].status = "rolledback"
    /\ tx[c].begins = 1
    /\ tx[c].rollbacks = 1
    /\ tx[c].commits = 0
    /\ tx[c].log = <<>>
    /\ RowsOf(c) = {}

C6_RootKeyInsertFailure ==
    \A c \in Calls :
        (ret[c].returned /\ trig[c].step = "gApiKey" /\ trig[c].cause = "store")
        => /\ ret[c].err = E("Database", "store")
           /\ tx[c].status = "rolledback"
           /\ \A r \in db : r.call = c =>
                 r.tbl \notin {"org_kind", "org", "app", "user", "app_api_key",
                               "person", "person_profile"}

C6_Witness ==
    \E c \in Calls :
        /\ ret[c].returned /\ trig[c].step = "gApiKey" /\ trig[c].cause = "store"
        /\ ret[c].err.kind = "Database" /\ RowsOf(c) = {}

\* position of a step in the straight-line order of Seed
StepOrder == <<"idle", "checkKind", "checkOrgs", "begin", "gKey", "gKind", "tKind",
               "sKind", "gOrg", "gApp", "gApiKey", "pgUser", "pcUser", "tKey",
               "tOrg", "tApp", "tApiKey", "tUser", "commit", "done">>
Pos(step) == CHOOSE i \in 1..Len(StepOrder) : StepOrder[i] = step
InLog(c, tbl, ref) ==
    Cardinality({i \in 1..Len(tx[c].log) :
                    tx[c].log[i].tbl = tbl /\ tx[c].log[i].ref = ref})

\* C7: an app insert or API-key insert of Seed (either set) that reports a
\* rows-affected count other than 1 without an error makes Seed roll back and
\* return a Database error; Seed goes past such an insert only with exactly
\* one row written by it.
C7_RowCountGuard ==
    \A c \in Calls :
        /\ (ret[c].returned /\ trig[c].cause = "rows"
              /\ trig[c].step \in {"gApp", "gApiKey", "tApp", "tApiKey"})
           => /\ ret[c].err = E("Database", "rows")
              /\ RolledBackOnce(c)
        /\ (tx[c].status \in {"open", "committed"} /\ Pos(pc[c]) > Pos("gApp"))
           => InLog(c, "app", "genesis") = 1
        /\ (tx[c].status \in {"open", "committed"} /\ Pos(pc[c]) > Pos("gApiKey"))
           => InLog(c, "app_api_key", "WOPR") = 1
        /\ (tx[c].status \in {"open", "committed"} /\ Pos(pc[c]) > Pos("tApp"))
           => InLog(c, "app", "test") = 1
        /\ (tx[c].status \in {"open", "committed"} /\ Pos(pc[c]) > Pos("tApiKey"))
           => InLog(c, "app_api_key", "test") = 1

C7_Witness ==
    \E c \in Calls :
        /\ ret[c].returned /\ trig[c].cause = "rows" /\ trig[c].step = "tApiKey"
        /\ ret[c].err.kind = "Database" /\ RolledBackOnce(c)


\* C8: when API-key generation fails for the root app or for the test app,
\* Seed returns an Internal error and the transaction is rolled back; when it
\* fails for the test app, after the whole genesis set was written, no row of
\* the genesis set is in the committed store.
C8_KeyGenFailure ==
    \A c \in Calls :
        (ret[c].returned /\ trig[c].cause = "keygen")
        => /\ trig[c].step \in {"gKey", "tKey"}
           /\ ret[c].err = E("Internal", "keygen")
           /\ RolledBackOnce(c)

C8_Witness ==
    \E c \in Calls :
        /\ ret[c].returned /\ trig[c].cause = "keygen" /\ trig[c].step = "tKey"
        /\ ret[c].err.kind = "Internal" /\ RolledBackOnce(c)

\* C9: Seed never returns a partially populated result: with a non-nil error
\* the response is the empty value; with a nil error the response carries the
\* genesis {org, app} and the test {org, app} and the transaction is committed.
C9_NoPartialResult ==
    \A c \in Calls :
        ret[c].returned =>
            /\ ret[c].err # Nil => ret[c].resp = EmptyResp
            /\ ret[c].err = Nil =>
                 /\ ret[c].resp = [genesis |-> [org |-> "genesis", app |-> "WOPR"],
                                   test    |-> [org |-> "test", app |-> "test"]]
                 /\ tx[c].status = "committed"
                 /\ tx[c].commits = 1
                 /\ ExpectedRows(c) \subseteq db

C9_Witness ==
    \E c \in Calls :
        /\ Succeeded(c) /\ ret[c].resp.test.app = "test"
        /\ ret[c].resp.genesis.app = "WOPR" /\ tx[c].status = "committed"

\* invocation c was cancelled between BeginTx and CommitTx
CancelledInTx(c) == cancelledAt[c] \in TxSteps

LogIdx(c, tbl, name) ==
    LET S == {i \in 1..Len(tx[c].log) : tx[c].log[i].tbl = tbl /\ tx[c].log[i].name = name}
    IN  IF S = {} THEN 0 ELSE CHOOSE i \in S : \A j \in S : i <= j
RootApp(c) == LogIdx(c, "app", "WOPR")
NamesRootApp(r) == r.created.app = "WOPR" \/ r.updated.app = "WOPR"

\* C15 as stated: in one Seed run the root app row is inserted before every
\* other row that names the root app as its creating or updating app, and
\* the root app row names itself as creating and updating app.
C15_Original ==
    \A c \in Calls : \A i \in 1..Len(tx[c].log) :
        (NamesRootApp(tx[c].log[i]) /\ i # RootApp(c))
        => (RootApp(c) # 0 /\ RootApp(c) < i)

\* C15 amended: in one Seed run the three org-kind rows and the genesis org
\* row, which name the root app as creating and updating app, are inserted
\* before the root app row; the root app row is inserted before every API-key
\* row and person/profile/user row that names it; the root app row names
\* itself as creating and updating app.
C15_RootAppOrder ==
    \A c \in Calls : \A i \in 1..Len(tx[c].log) :
        LET r == tx[c].log[i]
        IN  /\ (NamesRootApp(r) /\ r.tbl \in {"org_kind", "org"})
               => (RootApp(c) = 0 \/ i < RootApp(c))
            /\ (NamesRootApp(r) /\ r.tbl \in {"app_api_key", "person", "person_profile", "user"})
               => (RootApp(c) # 0 /\ RootApp(c) < i)
            /\ (r.tbl = "app" /\ r.name = "WOPR")
               => (r.created.app = r.name /\ r.updated.app = r.name /\ i = 5)
            /\ r.tbl \in {"org_kind", "org", "app", "app_api_key", "person",
                          "person_profile", "user"}

C15_Witness ==
    \E c \in Calls :
        /\ tx[c].status = "open" /\ pc[c] = "commit"
        /\ RootApp(c) = 5
        /\ NamesRootApp(tx[c].log[1]) /\ NamesRootApp(tx[c].log[4])
        /\ NamesRootApp(tx[c].log[6])

\* C16: in one Seed run the org-kind rows are inserted in the order genesis,
\* test, standard, all of them before any org row; the genesis org row
\* references the genesis kind and the test org row the test kind, each the
\* kind row inserted earlier in the same transaction.
C16_KindOrder ==
    \A c \in Calls :
        LET log == tx[c].log
            kinds == <<"genesis", "test", "standard">>
        IN  /\ \A i \in 1..Len(log) :
                 /\ i <= 3 => (log[i].tbl = "org_kind" /\ log[i].name = kinds[i])
                 /\ i > 3 => log[i].tbl # "org_kind"
                 /\ log[i].tbl = "org" =>
                      /\ i > 3
                      /\ log[i].ref = (IF log[i].name = "genesis" THEN "genesis" ELSE "test")
                      /\ log[i].name \in {"genesis", "test"}
                      /\ \E j \in 1..(i - 1) :
                            /\ log[j].tbl = "org_kind" /\ log[j].name = log[i].ref
                            /\ log[j].call = log[i].call

C16_Witness ==
    \E c \in Calls :
        /\ tx[c].status = "open" /\ Len(tx[c].log) >= 10
        /\ LogIdx(c, "org", "genesis") = 4
        /\ LogIdx(c, "org", "test") > 4
        /\ tx[c].log[LogIdx(c, "org", "test")].ref = "test"


\* the rows of the genesis set
GenesisSetRow(r) ==
    \/ r.tbl = "org_kind"
    \/ r.tbl = "org" /\ r.name = "genesis"
    \/ r.tbl = "app" /\ r.name = "WOPR"
    \/ r.tbl = "app_api_key" /\ r.ref = "WOPR"
    \/ r.tbl \in {"person", "person_profile", "user"} /\ r.ref = "genesis"
GenesisSetRows(c) ==
    {tx[c].log[i] : i \in {j \in 1..Len(tx[c].log) : GenesisSetRow(tx[c].log[j])}}

\* C17 as stated: every row written for the genesis set in one Seed run
\* carries one and the same audit, built from the root app, the first
\* administrative user and a single moment, as creation and last-update audit.
C17_Original ==
    \A c \in Calls : \A r, q \in GenesisSetRows(c) :
        /\ r.created = r.updated
        /\ r.created = q.created
        /\ r.created.app = "WOPR"
        /\ r.created.user = "pgabriel"

\* C17 amended: the three org-kind rows, the genesis org, the root app, its
\* API-key rows and the rows of the first administrative user carry one and
\* the same audit {root app, first administrative user, one moment} as
\* creation and last-update audit; the rows of the second administrative user
\* carry, as both, the audit {root app, second administrative user, the
\* moment read when that user was built}.
C17_GenesisAudit ==
    \A c \in Calls : \A r, q \in GenesisSetRows(c) :
        /\ r.created = r.updated
        /\ r.created.app = "WOPR"
        /\ r.name # "pcollins" => r.created = Audit("WOPR", "pgabriel", 1)
        /\ r.name = "pcollins" => r.created = Audit("WOPR", "pcollins", 2)
        /\ (r.name = "pcollins") = (q.name = "pcollins") => r.created = q.created

C17_Witness ==
    \E c \in Calls :
        /\ tx[c].status = "open"
        /\ \E r, q \in GenesisSetRows(c) :
              /\ r.tbl = "user" /\ r.name = "pcollins" /\ r.created.user = "pcollins"
              /\ q.tbl = "user" /\ q.name = "pgabriel" /\ q.created.user = "pgabriel"

\* the write log of a complete seed, in statement order
ExpectedLog(c) ==
    << KindRow(c, "genesis", PG), KindRow(c, "test", PG), KindRow(c, "standard", PG),
       OrgRow(c, "genesis", "genesis", PG), AppRow(c, "WOPR", "genesis", PG),
       KeyRow(c, "WOPR", 1, PG),
       PersonRow(c, "pgabriel", "genesis", PG), ProfileRow(c, "pgabriel", "genesis", PG),
       UserRow(c, "pgabriel", "genesis", PG),
       PersonRow(c, "pcollins", "genesis", PC), ProfileRow(c, "pcollins", "genesis", PC),
       UserRow(c, "pcollins", "genesis", PC),
       OrgRow(c, "test", "test", SH), AppRow(c, "test", "test", SH),
       KeyRow(c, "test", 1, SH),
       PersonRow(c, "shackett", "test", SH), ProfileRow(c, "shackett", "test", SH),
       UserRow(c, "shackett", "test", SH) >>

\* C18: in one Seed run exactly one transaction is begun, every write of both
\* sets is issued on it, CommitTx is called at most once and only after every
\* write of both sets has succeeded, and never after a RollbackTx.
C18_OneTransaction ==
    \A c \in Calls :
        /\ tx[c].begins <= 1
        /\ tx[c].commits <= 1
        /\ pc[c] \in TxSteps => tx[c].begins = 1
        /\ Len(tx[c].log) > 0 => (tx[c].begins = 1 /\ tx[c].status \in {"open", "committed"})
        /\ tx[c].status = "open" => tx[c].rollbacks = 0
        /\ pc[c] = "commit" =>
              /\ tx[c].status = "open"
              /\ tx[c].rollbacks = 0 /\ tx[c].commits = 0
              /\ tx[c].log = ExpectedLog(c)
        /\ tx[c].commits = 1 =>
              /\ tx[c].rollbacks = 0
              /\ tx[c].log = ExpectedLog(c)
              /\ trig[c].step = "commit"
        /\ tx[c].rollbacks >= 1 => tx[c].commits = 0
        /\ RowsOf(c) # {} => (tx[c].commits = 1 /\ RowsOf(c) = Range(tx[c].log))

C18_Witness ==
    \E c \in Calls :
        /\ tx[c].commits = 1 /\ tx[c].begins = 1 /\ tx[c].rollbacks = 0
        /\ tx[c].log = ExpectedLog(c) /\ RowsOf(c) = ExpectedRows(c)

\* C19: a Seed attempt that fails after BeginTx leaves no org-kind row with
\* external ID "genesis" and no org of kind genesis in the committed store, so
\* a later Seed call on the same store is not rejected on account of it: it
\* passes its precondition check and can succeed.
C19_FailedSeedLeavesNothing ==
    \A c \in Calls :
        (Failed(c) /\ trig[c].step \in TxSteps)
        => /\ RowsOf(c) = {}
           /\ tx[c].status = "rolledback"
           /\ (Alone(c) /\ ~GenesisPresent(pre[c])) => ~GenesisPresent(db)
           /\ \A d \in Calls :
                 (c \in prior[d] /\ ~GenesisPresent(pre[d]) /\ Alone(d))
                 => /\ trig[d].cause # "prior"
                    /\ (ret[d].returned /\ trig[d].cause \notin Faults) => Succeeded(d)

C19_Witness ==
    \E c, d \in Calls :
        /\ Failed(c) /\ trig[c].step = "gOrg"
        /\ c \in prior[d]
        /\ Succeeded(d) /\ RowsOf(d) = ExpectedRows(d) /\ RowsOf(c) = {}


\* ===================================================== command: Env, LoadEnv
\* Env values (type Env uint8)
Existing == 0
Local == 1
Staging == 2
Production == 3
Invalid == 99
EnvValues == 0..255

\* the environment variables overrideEnv sets, in the order it sets them
EnvKeys == <<"logLevelMinEnv", "loglevelEnv", "logErrorStackEnv", "portEnv",
             "DBHostEnv", "DBPortEnv", "DBNameEnv", "DBUserEnv", "DBPasswordEnv",
             "DBSearchPathEnv", "encryptKeyEnv">>
KeySet == {EnvKeys[i] : i \in 1..Len(EnvKeys)}
Unset == "<unset>"
\* a value os.Setenv rejects (it holds a NUL byte)
BadValue == "<nul>"

\* strconv.Itoa and fmt.Sprintf("%t", b)
Digits == <<"0", "1", "2", "3", "4", "5", "6", "7", "8", "9">>
RECURSIVE Itoa(_)
Itoa(n) ==
    IF n < 0 THEN "-" \o Itoa(0 - n)
    ELSE IF n < 10 THEN Digits[n + 1]
    ELSE Itoa(n \div 10) \o Digits[(n % 10) + 1]
FormatBool(b) == IF b THEN "true" ELSE "false"

\* ConfigFile{}: the zero value, and config files as they may be on disk
ZeroConfigFile ==
    [MinLogLevel |-> "", LogLevel |-> "", LogErrorStack |-> FALSE, ListenPort |-> 0,
     Host |-> "", Port |-> 0, Name |-> "", User |-> "", Password |-> "",
     SearchPath |-> "", EncryptionKey |-> ""]
GoodConfigFile ==
    [MinLogLevel |-> "trace", LogLevel |-> "debug", LogErrorStack |-> TRUE,
     ListenPort |-> 8080, Host |-> "localhost", Port |-> 5432, Name |-> "gab_local",
     User |-> "demo_user", Password |-> "REPLACE_ME", SearchPath |-> "demo",
     EncryptionKey |-> "31f8cbffe80df0067fbfac4abf0bb76c51d44cb82d2556743e6bf1a5e25d4e06"]
\* what os.ReadFile and json.Unmarshal can yield for a config file path
FileOutcomes ==
    { [readErr |-> TRUE,  jsonErr |-> FALSE, f |-> ZeroConfigFile],
      [readErr |-> FALSE, jsonErr |-> TRUE,  f |-> ZeroConfigFile],
      [readErr |-> FALSE, jsonErr |-> FALSE, f |-> GoodConfigFile],
      [readErr |-> FALSE, jsonErr |-> FALSE, f |-> [GoodConfigFile EXCEPT !.Name = BadValue]] }

\* NewConfigFile: the config file for env, or an error
NewConfigFile(e, file) ==
    IF e = Existing THEN [f |-> ZeroConfigFile, err |-> ""]
    ELSE IF e \in {Local, Staging, Production}
    THEN IF file.readErr THEN [f |-> ZeroConfigFile, err |-> "read"]
         ELSE IF file.jsonErr THEN [f |-> ZeroConfigFile, err |-> "json"]
         ELSE [f |-> file.f, err |-> ""]
    ELSE [f |-> ZeroConfigFile, err |-> "Invalid environment"]

\* the values overrideEnv hands to os.Setenv, in order
overrideValues(f) ==
    << f.MinLogLevel, f.LogLevel, FormatBool(f.LogErrorStack), Itoa(f.ListenPort),
       f.Host, Itoa(f.Port), f.Name, f.User, f.Password, f.SearchPath,
       f.EncryptionKey >>

\* overrideEnv: set the variables one by one, stop at the first os.Setenv error
RECURSIVE overrideFrom(_, _, _)
overrideFrom(environ, vals, i) ==
    IF i > Len(EnvKeys) THEN [environ |-> environ, err |-> ""]
    ELSE IF vals[i] = BadValue THEN [environ |-> environ, err |-> "setenv"]
    ELSE overrideFrom([environ EXCEPT ![EnvKeys[i]] = vals[i]], vals, i + 1)
overrideEnv(environ, f) == overrideFrom(environ, overrideValues(f), 1)

\* LoadEnv
LoadEnv(environ, e, file) ==
    LET r == NewConfigFile(e, file)
    IN  IF r.err # "" THEN [environ |-> environ, err |-> r.err]
        ELSE overrideEnv(environ, r.f)

\* Env.String
String(e) ==
    CASE e = Existing -> "existing"
      [] e = Local -> "local"
      [] e = Staging -> "staging"
      [] e = Production -> "production"
      [] e = Invalid -> "invalid"
      [] OTHER -> "unknown_env_config"

\* ParseEnv
ParseEnv(envStr) ==
    CASE envStr = "existing" -> Existing
      [] envStr = "local" -> Local
      [] envStr = "staging" -> Staging
      [] envStr = "prod" -> Production
      [] OTHER -> Invalid

\* the strings a caller may hand to ParseEnv
EnvStrings == {"existing", "local", "staging", "prod", "production", "invalid",
               "unknown_env_config", ""}

\* process environments LoadEnv may start from
Environs ==
    {[k \in KeySet |-> Unset], [k \in KeySet |-> "prev"]}
    \cup {[k \in KeySet |-> IF k = j THEN "prev" ELSE Unset] : j \in KeySet}

EnvStart(environ) ==
    [pc |-> "start", environ |-> environ, environ0 |-> environ, arg |-> Existing,
     err |-> "", str |-> "", parsed |-> Existing]

\* the seeding service, the movie store and the authorizer stand still
SeedIdle ==
    /\ db = {}
    /\ pc = [c \in Calls |-> "idle"]
    /\ ctx = [c \in Calls |-> FALSE]
    /\ tx = [c \in Calls |-> NoTx]
    /\ loc = [c \in Calls |-> Loc0]
    /\ ret = [c \in Calls |-> NoRet]
    /\ pre = [c \in Calls |-> {}]
    /\ trig = [c \in Calls |-> NoTrig]
    /\ cancelledAt = [c \in Calls |-> ""]
    /\ prior = [c \in Calls |-> {}]

InitEnv ==
    /\ SeedIdle
    /\ mv = MvIdle
    /\ az = AzIdle
    /\ env \in {EnvStart(f) : f \in Environs}

\* a command calls LoadEnv(e)
DoLoadEnv ==
    /\ env.pc = "start"
    /\ \E e \in {Existing, Local, Staging, Production, Invalid, 4} :
       \E file \in FileOutcomes :
         LET r == LoadEnv(env.environ, e, file)
         IN  env' = [env EXCEPT !.pc = "loaded", !.arg = e,
                                !.environ = r.environ, !.err = r.err]
    /\ UNCHANGED <<seedVars, mv, az>>

\* a value is printed and read back: ParseEnv(e.String())
DoStringParse ==
    /\ env.pc = "start"
    /\ \E e \in EnvValues :
         env' = [env EXCEPT !.pc = "parsed", !.arg = e, !.str = String(e),
                            !.parsed = ParseEnv(String(e))]
    /\ UNCHANGED <<seedVars, mv, az>>

\* a command-line string is parsed and printed back: ParseEnv(s).String()
DoParseString ==
    /\ env.pc = "start"
    /\ \E str \in EnvStrings :
         env' = [env EXCEPT !.pc = "printed", !.parsed = ParseEnv(str),
                            !.arg = ParseEnv(str), !.str = String(ParseEnv(str))]
    /\ UNCHANGED <<seedVars, mv, az>>

NextEnv == DoLoadEnv \/ DoStringParse \/ DoParseString
SpecEnv == InitEnv /\ [][NextEnv]_vars

\* C12 as stated: LoadEnv(Existing) leaves the process environment unchanged;
\* no variable overrideEnv sets has another value after the call than before.
C12_ExistingUnchanged ==
    (env.pc = "loaded" /\ env.arg = Existing)
    => \A k \in KeySet : env.environ[k] = env.environ0[k]

\* C20 as stated: for every defined environment e (Existing, Local, Staging,
\* Production, Invalid), ParseEnv(e.String()) = e.
C20_StringParseInverse ==
    (env.pc = "parsed" /\ env.arg \in {Existing, Local, Staging, Production, Invalid})
    => env.parsed = env.arg


\* ===================================================== moviestore: Tx.Update, Tx.Delete
MaxReturned == 2

NilUUID == "00000000-0000-0000-0000-000000000000"
MovieIDs == {"movie-1", "movie-2"}

\* what the driver can do to the UPDATE ... RETURNING statement: the stage that
\* fails (if any) and the movie_id of each row it returns
UpdateStages == {"ok", "prepare", "query", "scanID", "scanLater", "rowsErr"}
ReturnedRows == UNION {[1..k -> MovieIDs] : k \in 0..MaxReturned}
UpdateOutcomes ==
    { o \in [stage : UpdateStages, rows : ReturnedRows] :
        /\ o.stage \in {"prepare", "query"} => o.rows = << >>
        /\ o.stage \in {"scanID", "scanLater"} => Len(o.rows) >= 1 }

\* what the driver can do to the DELETE statement
DeleteOutcomes ==
    {[execErr |-> TRUE, raErr |-> FALSE, n |-> 0],
     [execErr |-> FALSE, raErr |-> TRUE, n |-> 0]}
    \cup {[execErr |-> FALSE, raErr |-> FALSE, n |-> k] : k \in 0..MaxRowsAffected}

\* for rows.Next() { rows.Scan(&m.ID, ...) }: the ID after scanning every row
RECURSIVE ScanRows(_, _, _)
ScanRows(id, rows, i) ==
    IF i > Len(rows) THEN id ELSE ScanRows(rows[i], rows, i + 1)

\* the final test of Tx.Update: the primary key was not returned
NoIDReturned(id) == id = NilUUID

\* Tx.Update
TxUpdate(m, out) ==
    CASE out.stage = "prepare" -> [m |-> m, err |-> E("Other", "prepare")]
      [] out.stage = "query" -> [m |-> m, err |-> E("Other", "query")]
      [] out.stage = "scanID" -> [m |-> m, err |-> E("Other", "scan")]
      [] out.stage = "scanLater" ->
            [m |-> [m EXCEPT !.ID = out.rows[1]], err |-> E("Other", "scan")]
      [] out.stage = "rowsErr" ->
            [m |-> [m EXCEPT !.ID = ScanRows(m.ID, out.rows, 1)],
             err |-> E("Other", "rows")]
      [] OTHER ->
            LET id == ScanRows(m.ID, out.rows, 1)
            IN  [m |-> [m EXCEPT !.ID = id],
                 err |-> IF NoIDReturned(id)
                         THEN E("Database", "Invalid ID - no records updated")
                         ELSE Nil]

\* the row-count test of Tx.Delete
BadDeleteCount_Mut(n) == n = 0
BadDeleteCount(n) == n = 0 \/ n > 1

\* Tx.Delete
TxDelete(m, out) ==
    IF out.execErr THEN E("Database", "exec")
    ELSE IF out.raErr THEN E("Database", "rowsAffected")
    ELSE IF BadDeleteCount(out.n)
    THEN E("Database", IF out.n = 0 THEN "No Rows Deleted" ELSE "Too Many Rows Deleted")
    ELSE Nil

Movies == [ID : MovieIDs \cup {NilUUID}, ExternalID : {"extl-1", "extl-2"}]
MvStart(m) ==
    [pc |-> "start", op |-> "", m |-> m, m0 |-> m,
     upd |-> [stage |-> "ok", rows |-> << >>],
     del |-> [execErr |-> FALSE, raErr |-> FALSE, n |-> 0], ret |-> Nil]

InitMovie ==
    /\ SeedIdle
    /\ env = EnvIdle
    /\ az = AzIdle
    /\ mv \in {MvStart(m) : m \in Movies}

DoUpdate ==
    /\ mv.pc = "start"
    /\ \E out \in UpdateOutcomes :
         LET r == TxUpdate(mv.m, out)
         IN  mv' = [mv EXCEPT !.pc = "done", !.op = "Update", !.upd = out,
                              !.m = r.m, !.ret = r.err]
    /\ UNCHANGED <<seedVars, env, az>>

DoDelete ==
    /\ mv.pc = "start"
    /\ \E out \in DeleteOutcomes :
         mv' = [mv EXCEPT !.pc = "done", !.op = "Delete", !.del = out,
                          !.ret = TxDelete(mv.m, out)]
    /\ UNCHANGED <<seedVars, env, az>>

NextMovie == DoUpdate \/ DoDelete
SpecMovie == InitMovie /\ [][NextMovie]_vars

\* C13 as stated: Tx.Update returns a Database error whenever the UPDATE ran and
\* matched no row, and returns nil only when a row was updated, whatever the
\* movie's ID field held before the call.
C13_UpdateDetectsNoRow ==
    (mv.pc = "done" /\ mv.op = "Update")
    => /\ (mv.upd.stage = "ok" /\ Len(mv.upd.rows) = 0) => mv.ret.kind = "Database"
       /\ mv.ret = Nil => Len(mv.upd.rows) >= 1

\* C14: Tx.Delete returns nil iff the DELETE executed without error (neither the
\* statement nor the reading of its result failed) and affected exactly one row;
\* with 0 rows or more than 1 row affected it returns a Database error.
C14_DeleteExactlyOne ==
    (mv.pc = "done" /\ mv.op = "Delete")
    => /\ mv.ret = Nil <=> (~mv.del.execErr /\ ~mv.del.raErr /\ mv.del.n = 1)
       /\ (~mv.del.execErr /\ ~mv.del.raErr /\ mv.del.n # 1)
            => mv.ret.kind = "Database"
C14_Witness ==
    /\ mv.pc = "done" /\ mv.op = "Delete"
    /\ ~mv.del.execErr /\ ~mv.del.raErr /\ mv.del.n > 1
    /\ mv.ret.kind = "Database"


\* ===================================================== RBAC: roles, permissions, Authorize
Permission(resource, operation, active) ==
    [resource |-> resource, operation |-> operation, active |-> active]

\* the permissions of role sysAdmin in the seed document
sysAdminPermissions_Mut ==
    << Permission("/api/v1/logger", "GET", TRUE),
       Permission("/api/v1/logger", "PUT", TRUE),
       Permission("/api/v1/orgs", "PUT", TRUE),
       Permission("/api/v1/orgs", "DELETE", TRUE),
       Permission("/api/v1/orgs", "GET", TRUE),
       Permission("/api/v1/orgs/{extlID}", "GET", TRUE),
       Permission("/api/v1/apps", "POST", TRUE),
       Permission("/api/v1/permissions", "POST", TRUE),
       Permission("/api/v1/permissions", "GET", TRUE) >>
sysAdminPermissions ==
    << Permission("/api/v1/ping", "GET", TRUE),
       Permission("/api/v1/logger", "GET", TRUE),
       Permission("/api/v1/logger", "PUT", TRUE),
       Permission("/api/v1/orgs", "POST", TRUE),
       Permission("/api/v1/orgs", "PUT", TRUE),
       Permission("/api/v1/orgs", "DELETE", TRUE),
       Permission("/api/v1/orgs", "GET", TRUE),
       Permission("/api/v1/orgs/{extlID}", "GET", TRUE),
       Permission("/api/v1/apps", "POST", TRUE),
       Permission("/api/v1/permissions", "POST", TRUE),
       Permission("/api/v1/permissions", "GET", TRUE) >>

\* the roles of the seed document
SeedRoles ==
    << [role_cd |-> "sysAdmin", active |-> TRUE, permissions |-> sysAdminPermissions] >>

\* documents the schema admits: any role or permission may be inactive
WithRoleInactive(roles, i) == [roles EXCEPT ![i].active = FALSE]
WithPermissionInactive(roles, i, j) ==
    [roles EXCEPT ![i].permissions[j].active = FALSE]
RoleGraphs ==
    {SeedRoles, WithRoleInactive(SeedRoles, 1)}
    \cup {WithPermissionInactive(SeedRoles, 1, j) : j \in DOMAIN sysAdminPermissions}

\* the roles a principal may hold, and the requests it may make
HeldRoles == {{}, {"sysAdmin"}, {"auditor"}}
Resources ==
    {sysAdminPermissions[j].resource : j \in DOMAIN sysAdminPermissions}
    \cup {"/api/v1/orgs/", "/api/v1/movies"}
Operations == {"GET", "PUT", "POST", "DELETE", "PATCH"}

\* Authorize: walk the principal's roles, then each active role's permissions
RECURSIVE permits(_, _, _, _)
permits(perms, j, resource, operation) ==
    IF j > Len(perms) THEN FALSE
    ELSE IF perms[j].active /\ perms[j].resource = resource
            /\ perms[j].operation = operation
    THEN TRUE
    ELSE permits(perms, j + 1, resource, operation)
RECURSIVE walkRoles(_, _, _, _, _)
walkRoles(roles, i, held, resource, operation) ==
    IF i > Len(roles) THEN FALSE
    ELSE IF roles[i].role_cd \in held /\ roles[i].active
            /\ permits(roles[i].permissions, 1, resource, operation)
    THEN TRUE
    ELSE walkRoles(roles, i + 1, held, resource, operation)
Authorize(roles, held, resource, operation) ==
    IF walkRoles(roles, 1, held, resource, operation) THEN "allow" ELSE "deny"

AzStart(roles, held) ==
    [pc |-> "start", roles |-> roles, held |-> held, resource |-> "",
     operation |-> "", decision |-> ""]

InitAuthz ==
    /\ SeedIdle
    /\ env = EnvIdle
    /\ mv = MvIdle
    /\ az \in {AzStart(g, h) : g \in RoleGraphs, h \in HeldRoles}

\* one request is authorized against the loaded graph
DoAuthorize ==
    /\ az.pc = "start"
    /\ \E resource \in Resources, operation \in Operations :
         az' = [az EXCEPT !.pc = "decided", !.resource = resource,
                          !.operation = operation,
                          !.decision = Authorize(az.roles, az.held, resource, operation)]
    /\ UNCHANGED <<seedVars, env, mv>>

NextAuthz == DoAuthorize
SpecAuthz == InitAuthz /\ [][NextAuthz]_vars

Asked(resource, operation) == az.resource = resource /\ az.operation = operation

====
